---- MODULE Spec2Model ----
(***************************************************************************)
(* A model of prism-ct-service: the caching directory of CT logs           *)
(* (src/src/log_list/service.rs), the supervisor that registers the        *)
(* service and spawns one watcher per log, and the per-log watcher         *)
(* (src/src/log_monitoring.rs).                                            *)
(***************************************************************************)
EXTENDS Integers, Sequences, FiniteSets, TLC

VARIABLES
    clock,      \* SystemTime::now(), in ticks since UNIX_EPOCH
    remote,     \* the directory the remote endpoint currently serves
    cache,      \* CachedLogs behind the Mutex
    lock,       \* the caller that holds the Mutex, or "none"
    call,       \* per caller: the access to the cache it is running
    ledger,     \* the Prover: its accounts and the account transactions it queued
    watcher,    \* the spawned monitor_log tasks, in spawn order
    sup         \* monitor_operators: the supervisor

cacheVars == <<clock, remote, cache, lock, call>>
monitorVars == <<ledger, watcher, sup>>

vars == <<clock, remote, cache, lock, call, ledger, watcher, sup>>

----------------------------------------------------------------------------
(* Bounds *)

\* operators in a generated directory
MaxOps == 2
\* logs in a generated directory, over all its operators
MaxLogs == 2
\* cache_duration, in ticks
CacheDuration == 2
\* ticks the clock advances after the start of a run
MaxTicks == 2
\* checkpoints a watcher obtains from its log
MaxFetches == 5
\* checkpoints the tasks obtain while their supervisor runs
MaxSystemFetches == 2
\* submissions of a watcher the ledger rejects
MaxRejects == 2
\* tasks the supervisor spawns
MaxWatchers == 4
\* operator names in one call of monitor_operators
MaxRequested == 2
\* calls of monitor_operators
MaxStarts == 2

----------------------------------------------------------------------------
(* Directory data: log_list/types.rs *)

OperatorNames == {"Acme", "Beta"}
LogIds == {"L1", "L2"}
\* Option<LogState>: the five tags, and "none" for a log that carries no state
LogStates == {"pending", "usable", "readonly", "retired", "rejected", "none"}

Log(id, st) == [log_id |-> id, state |-> st]
Logs == [log_id : LogIds, state : LogStates]
Operator(nm, ls) == [name |-> nm, logs |-> ls]
LogList(ops) == [operators |-> ops]

\* a refresh that filters out the rejected logs only
is_usable_rejected_only(log) == log.state # "rejected"

is_usable(log) == log.state = "usable"

\* the ways to hand n logs, in order, to k operators: owner[j] is the
\* position of the operator that lists the j-th log
Owners(k, n) == {o \in [1..n -> 1..k] : \A j \in 1..(n - 1) : o[j] <= o[j + 1]}

\* the directory of the operators named names[1], names[2], ... that lists
\* the logs in order, each under its owner
Directory(names, logs, owner) ==
    LogList([i \in DOMAIN names |->
        LET mine == {j \in DOMAIN logs : owner[j] = i}
            before == Cardinality({j \in DOMAIN logs : owner[j] < i}) IN
        Operator(names[i], [j \in 1..Cardinality(mine) |-> logs[before + j]])])

\* The directory of the round-trip example: Acme owns a usable L1 and a rejected L2
DirAcme == LogList(<<Operator("Acme", <<Log("L1", "usable"), Log("L2", "rejected")>>)>>)
\* A later edition: L2 became usable under Beta, L1 was retired
DirBeta == LogList(<<Operator("Acme", <<Log("L1", "retired")>>),
                     Operator("Beta", <<Log("L2", "usable")>>)>>)
SampleDirectories == {DirAcme, DirBeta}
\* Two operators with a usable log each
DirBoth == LogList(<<Operator("Acme", <<Log("L1", "usable")>>),
                     Operator("Beta", <<Log("L2", "usable")>>)>>)

----------------------------------------------------------------------------
(* HashMap<K, V> as a function with a finite domain *)

EmptyMap == [k \in {} |-> 0]
Insert(m, key, v) == [k \in DOMAIN m \cup {key} |-> IF k = key THEN v ELSE m[k]]
\* Vec indexing, 0-based as in the source
At(vec, i) == vec[i + 1]

----------------------------------------------------------------------------
(* CachedLogs and the index rebuild: log_list/service.rs *)

UNIX_EPOCH == 0

DefaultCachedLogs ==
    [logs |-> <<>>, logs_by_id |-> EmptyMap, logs_by_operator |-> EmptyMap,
     last_updated |-> UNIX_EPOCH]

RECURSIVE IndexOperatorLogs(_, _, _)
\* the inner loop, lines 86-96, from the k-th log of the operator on;
\* acc holds logs, logs_by_id and operator_indices
IndexOperatorLogs(opLogs, k, acc) ==
    IF k > Len(opLogs) THEN acc
    ELSE LET log == opLogs[k] IN
         IF ~is_usable(log) THEN IndexOperatorLogs(opLogs, k + 1, acc)
         ELSE LET index == Len(acc.logs) IN
              IndexOperatorLogs(opLogs, k + 1,
                  [acc EXCEPT !.logs = Append(@, log),
                              !.logs_by_id = Insert(@, log.log_id, index),
                              !.operator_indices = Append(@, index)])

RECURSIVE IndexOperators(_, _, _)
\* the outer loop, lines 83-99, from the k-th operator on
IndexOperators(ops, k, acc) ==
    IF k > Len(ops) THEN acc
    ELSE LET inner == IndexOperatorLogs(ops[k].logs, 1,
                          [logs |-> acc.logs, logs_by_id |-> acc.logs_by_id,
                           operator_indices |-> <<>>]) IN
         IndexOperators(ops, k + 1,
             [logs |-> inner.logs, logs_by_id |-> inner.logs_by_id,
              logs_by_operator |->
                  Insert(acc.logs_by_operator, ops[k].name, inner.operator_indices)])

\* lines 79-105: the CachedLogs built from a fetched directory at time now
Rebuild(new_log_list, now) ==
    LET built == IndexOperators(new_log_list.operators, 1,
                     [logs |-> <<>>, logs_by_id |-> EmptyMap,
                      logs_by_operator |-> EmptyMap]) IN
    [logs |-> built.logs, logs_by_id |-> built.logs_by_id,
     logs_by_operator |-> built.logs_by_operator, last_updated |-> now]

----------------------------------------------------------------------------
(* Results and errors: log_list/error.rs *)

Ok(v) == [ok |-> TRUE, value |-> v]
Err(variant, msg) == [ok |-> FALSE, variant |-> variant, msg |-> msg]
NoResult == [ok |-> FALSE, variant |-> "pending", msg |-> ""]

\* LogListError has two variants
LogListErrorVariants == {"NetworkError", "ParseError"}

\* lines 47-50
LookupById(c, id) ==
    IF id \in DOMAIN c.logs_by_id
    THEN Ok(At(c.logs, c.logs_by_id[id]))
    ELSE Err("ParseError", "Log not found")

\* a lookup that reports an unknown operator as an error
LookupByOperator_strict(c, operator) ==
    IF operator \in DOMAIN c.logs_by_operator
    THEN Ok([k \in 1..Len(c.logs_by_operator[operator]) |->
                At(c.logs, c.logs_by_operator[operator][k])])
    ELSE Err("ParseError", "Operator not found")

\* lines 56-60
LookupByOperator(c, operator) ==
    IF operator \in DOMAIN c.logs_by_operator
    THEN Ok([k \in 1..Len(c.logs_by_operator[operator]) |->
                At(c.logs, c.logs_by_operator[operator][k])])
    ELSE Ok(<<>>)

\* SystemTime::duration_since: an error when earlier is later than self
DurationSince(now, earlier) ==
    IF earlier <= now THEN Ok(now - earlier) ELSE Err("SystemTimeError", "")

\* a freshness check that still trusts a cache of exactly the time-to-live
IsFresh_inclusive(now, last_updated) ==
    LET d == DurationSince(now, last_updated) IN
    IF d.ok THEN d.value <= CacheDuration ELSE FALSE

\* lines 67-70
IsFresh(now, last_updated) ==
    LET d == DurationSince(now, last_updated) IN
    IF d.ok THEN d.value < CacheDuration ELSE FALSE

----------------------------------------------------------------------------
(* Accesses to CachingLogListService: get_by_id, get_all_by_operator and     *)
(* check_and_refresh_cache, one step per lock region and per await           *)

Clients == {"c1", "c2"}
Callers == Clients \cup {"sup"}

QueriedIds == LogIds
\* "Ghost" names no operator of any directory
QueriedOperators == {"Acme", "Ghost"}

IdleCall ==
    [pc |-> "idle", op |-> "none", arg |-> "", now |-> 0, seen |-> 0,
     fresh |-> FALSE, fetch |-> "none", fetches |-> 0,
     new_log_list |-> LogList(<<>>), latest |-> FALSE, served |-> FALSE,
     result |-> NoResult]

\* get_by_id / get_all_by_operator is called; line 64 takes now
Enter(c, op, arg) ==
    /\ call[c].pc = "idle"
    /\ call' = [call EXCEPT ![c] =
                   [IdleCall EXCEPT !.pc = "entered", !.op = op, !.arg = arg,
                                    !.now = clock]]
    /\ UNCHANGED <<clock, remote, cache, lock>>
    /\ UNCHANGED monitorVars

\* line 66: self.cache.lock()
LockForCheck(c) ==
    /\ call[c].pc = "entered"
    /\ lock = "none"
    /\ lock' = c
    /\ call' = [call EXCEPT ![c].pc = "checking"]
    /\ UNCHANGED <<clock, remote, cache>>
    /\ UNCHANGED monitorVars

\* a freshness check that keeps the guard over the fetch
CheckFresh_keeps_lock(c) ==
    /\ call[c].pc = "checking"
    /\ lock = c
    /\ LET fresh == IsFresh(call[c].now, cache.last_updated) IN
       /\ lock' = IF fresh THEN "none" ELSE c
       /\ call' = [call EXCEPT ![c].seen = cache.last_updated,
                               ![c].fresh = fresh,
                               ![c].fetches = IF fresh THEN @ ELSE @ + 1,
                               ![c].pc = IF fresh THEN "read" ELSE "fetching"]
    /\ UNCHANGED <<clock, remote, cache>>
    /\ UNCHANGED monitorVars

\* lines 67-78: the freshness check, drop(cache), and either the early return
\* (on to the caller's read) or the start of fetch_log_list
CheckFresh(c) ==
    /\ call[c].pc = "checking"
    /\ lock = c
    /\ lock' = "none"
    /\ LET fresh == IsFresh(call[c].now, cache.last_updated) IN
       call' = [call EXCEPT ![c].seen = cache.last_updated,
                            ![c].fresh = fresh,
                            ![c].fetches = IF fresh THEN @ ELSE @ + 1,
                            ![c].pc = IF fresh THEN "read" ELSE "fetching"]
    /\ UNCHANGED <<clock, remote, cache>>
    /\ UNCHANGED monitorVars

\* line 78 and client.rs lines 29-39: the fetch returns the directory; latest
\* records which of the accesses in progress fetched most recently
FetchOk(c) ==
    /\ call[c].pc = "fetching"
    /\ call' = [d \in Callers |->
                   IF d = c
                   THEN [call[c] EXCEPT !.fetch = "ok", !.new_log_list = remote,
                                        !.latest = TRUE, !.pc = "fetched"]
                   ELSE [call[d] EXCEPT !.latest = FALSE]]
    /\ UNCHANGED <<clock, remote, cache, lock>>
    /\ UNCHANGED monitorVars

\* a failed fetch that still marks the cache as refreshed
FetchErr_marks_refreshed(c) ==
    /\ call[c].pc = "fetching"
    /\ \E variant \in LogListErrorVariants :
          call' = [call EXCEPT ![c].fetch = variant,
                               ![c].result = Err(variant, "fetch"),
                               ![c].pc = "done"]
    /\ cache' = [cache EXCEPT !.last_updated = call[c].now]
    /\ UNCHANGED <<clock, remote, lock>>
    /\ UNCHANGED monitorVars

\* line 78 and client.rs lines 29-39: the fetch fails and `?` returns the error
FetchErr(c) ==
    /\ call[c].pc = "fetching"
    /\ \E variant \in LogListErrorVariants :
          call' = [call EXCEPT ![c].fetch = variant,
                               ![c].result = Err(variant, "fetch"),
                               ![c].pc = "done"]
    /\ UNCHANGED <<clock, remote, cache, lock>>
    /\ UNCHANGED monitorVars

\* lines 79-101: the rebuild into locals, then self.cache.lock()
LockForSwap(c) ==
    /\ call[c].pc = "fetched"
    /\ lock = "none"
    /\ lock' = c
    /\ call' = [call EXCEPT ![c].pc = "swapping"]
    /\ UNCHANGED <<clock, remote, cache>>
    /\ UNCHANGED monitorVars

\* a swap that replaces the indices and the time but not the logs
Swap_keeps_logs(c) ==
    /\ call[c].pc = "swapping"
    /\ lock = c
    /\ cache' = [Rebuild(call[c].new_log_list, call[c].now) EXCEPT !.logs = cache.logs]
    /\ lock' = "none"
    /\ call' = [call EXCEPT ![c].pc = "read"]
    /\ UNCHANGED <<clock, remote>>
    /\ UNCHANGED monitorVars

\* lines 102-107: the four fields are assigned and the guard is dropped
Swap(c) ==
    /\ call[c].pc = "swapping"
    /\ lock = c
    /\ cache' = Rebuild(call[c].new_log_list, call[c].now)
    /\ lock' = "none"
    /\ call' = [call EXCEPT ![c].pc = "read"]
    /\ UNCHANGED <<clock, remote>>
    /\ UNCHANGED monitorVars

\* line 46 / line 55: self.cache.lock()
LockForRead(c) ==
    /\ call[c].pc = "read"
    /\ lock = "none"
    /\ lock' = c
    /\ call' = [call EXCEPT ![c].pc = "reading"]
    /\ UNCHANGED <<clock, remote, cache>>
    /\ UNCHANGED monitorVars

\* lines 47-50 / lines 56-60: the lookup, and the guard is dropped
Read(c) ==
    /\ call[c].pc = "reading"
    /\ lock = c
    /\ lock' = "none"
    /\ call' = [call EXCEPT ![c].served = TRUE,
                            ![c].result = IF call[c].op = "get_by_id"
                                          THEN LookupById(cache, call[c].arg)
                                          ELSE LookupByOperator(cache, call[c].arg),
                            ![c].pc = "done"]
    /\ UNCHANGED <<clock, remote, cache>>
    /\ UNCHANGED monitorVars

\* the caller has its result
Return(c) ==
    /\ call[c].pc = "done"
    /\ call' = [call EXCEPT ![c] = IdleCall]
    /\ UNCHANGED <<clock, remote, cache, lock>>
    /\ UNCHANGED monitorVars

\* the steps of an access once it is entered
Access(c) ==
    \/ LockForCheck(c)
    \/ CheckFresh(c)
    \/ FetchOk(c)
    \/ FetchErr(c)
    \/ LockForSwap(c)
    \/ Swap(c)
    \/ LockForRead(c)
    \/ Read(c)

----------------------------------------------------------------------------
(* The environment of the cache *)

\* time passes
Tick ==
    /\ clock < CacheDuration + MaxTicks
    /\ clock' = clock + 1
    /\ UNCHANGED <<remote, cache, lock, call>>
    /\ UNCHANGED monitorVars

\* the remote endpoint publishes another directory
Publish ==
    /\ \E d \in SampleDirectories \ {remote} : remote' = d
    /\ UNCHANGED <<clock, cache, lock, call>>
    /\ UNCHANGED monitorVars

\* a client calls get_by_id or get_all_by_operator
ClientCall(c) ==
    \/ \E id \in QueriedIds : Enter(c, "get_by_id", id)
    \/ \E operator \in QueriedOperators : Enter(c, "get_all_by_operator", operator)

----------------------------------------------------------------------------
(* The ledger (Prover) and accounts, as log_monitoring.rs uses them *)

CT_SERVICE_KEY_ID == "ct-service"

\* Account::default()
DefaultAccount == [id |-> "", nonce |-> 0, data |-> "none"]

\* Account::prepare_transaction: the transaction carries the account's position
prepare_transaction(account, id, op, data) ==
    [id |-> id, op |-> op, data |-> data, nonce |-> account.nonce]

NoTx == [id |-> "", op |-> "none", data |-> "none", nonce |-> 0]

\* Account::process_transaction: the account advances by one transaction
process_transaction(account, tx) ==
    [id |-> tx.id, nonce |-> account.nonce + 1,
     data |-> IF tx.op = "SetData" THEN tx.data ELSE account.data]

\* the account a transaction that creates one leaves on the ledger
CreatedAccount(tx) == process_transaction(DefaultAccount, tx)

EmptyLedger == [accounts |-> {}, queue |-> <<>>]

\* no call of monitor_operators was made yet
NoSupervisor ==
    [pc |-> "none", starts |-> 0, operators |-> <<>>, next |-> 1,
     held |-> FALSE, answer |-> "none", submitted |-> 0, accepted |-> "none",
     registrations |-> 0,
     spawned |-> 0, ret |-> "none"]

\* Prover::get_account: Found(account) or NotFound
HasAccount(id) == \E a \in ledger.accounts : a.id = id
AccountOf(id) == CHOOSE a \in ledger.accounts : a.id = id

\* Prover::validate_and_queue_update accepts a transaction: one that creates
\* an account waits in the queue until the prover applies it
Queued(tx) ==
    IF tx.op \in {"RegisterService", "CreateAccount"}
    THEN [ledger EXCEPT !.queue = Append(@, tx)]
    ELSE ledger

\* the prover applies the oldest queued transaction
LedgerApply ==
    /\ ledger.queue # <<>>
    /\ ledger' = [accounts |->
                     IF HasAccount(Head(ledger.queue).id) THEN ledger.accounts
                     ELSE ledger.accounts \cup {CreatedAccount(Head(ledger.queue))},
                  queue |-> Tail(ledger.queue)]
    /\ UNCHANGED <<watcher, sup>>
    /\ UNCHANGED cacheVars

----------------------------------------------------------------------------
(* The watcher of one log: monitor_log, create_log_account, watch_log *)

\* [0u8; 32], line 160
ZeroHash == "0"
\* the root hashes a log publishes; a SHA-256 root is never all zero
RootHashes == {"A", "B", "C"}

\* the task tokio::task::spawn starts for a log, before its first poll
SpawnedWatcher(log) ==
    [log |-> log, pc |-> "spawned", account |-> DefaultAccount,
     last_tree_head |-> ZeroHash, update_tx |-> NoTx,
     fetched |-> <<>>, anomalies |-> 0, attempts |-> <<>>, rejects |-> 0,
     held |-> FALSE, answer |-> "none", ret |-> "running"]

\* the tasks, by spawn order
WatcherIds == 1..MaxWatchers

\* task i is at pc
AtPc(i, pc) == i \in DOMAIN watcher /\ watcher[i].pc = pc

Set(i, w) == watcher' = [watcher EXCEPT ![i] = w]

\* validate_and_queue_update(tx) is called: one more submission attempt
Attempt(attempts, tx) == Append(attempts, [tx |-> tx, result |-> "pending"])

\* the call returns
Answered(attempts, result) == [attempts EXCEPT ![Len(attempts)].result = result]

\* the watcher returns Err: the task ends
Failed(w, why) == [w EXCEPT !.pc = "ended", !.ret = why]

\* monitor_log is polled: create_log_account calls get_account, line 97
MonitorLog(i) ==
    /\ AtPc(i, "spawned")
    /\ Set(i, [watcher[i] EXCEPT !.pc = "get_account"])
    /\ UNCHANGED <<ledger, sup>>
    /\ UNCHANGED cacheVars

\* line 97: get_account fails and `?` ends the task
GetAccountErr(i) ==
    /\ AtPc(i, "get_account")
    /\ Set(i, Failed([watcher[i] EXCEPT !.held = HasAccount(watcher[i].log.log_id),
                                        !.answer = "err"], "get_account"))
    /\ UNCHANGED <<ledger, sup>>
    /\ UNCHANGED cacheVars

\* lines 97-103: the account exists and is adopted
GetAccountFound(i) ==
    /\ AtPc(i, "get_account")
    /\ HasAccount(watcher[i].log.log_id)
    /\ Set(i, [watcher[i] EXCEPT !.account = AccountOf(watcher[i].log.log_id),
                                 !.held = TRUE, !.answer = "found",
                                 !.pc = "watch_log"])
    /\ UNCHANGED <<ledger, sup>>
    /\ UNCHANGED cacheVars

\* lines 105-137: no account; the creation transaction is prepared on a
\* default account and submitted
GetAccountNotFound(i) ==
    /\ AtPc(i, "get_account")
    /\ ~HasAccount(watcher[i].log.log_id)
    /\ LET create_acc_tx == prepare_transaction(DefaultAccount, watcher[i].log.log_id,
                                                "CreateAccount", "none") IN
       Set(i, [watcher[i] EXCEPT !.update_tx = create_acc_tx,
                                 !.attempts = Attempt(@, create_acc_tx),
                                 !.answer = "notfound",
                                 !.pc = "create_account"])
    /\ UNCHANGED <<ledger, sup>>
    /\ UNCHANGED cacheVars

\* lines 105-107: the keystore has no signing key and `?` ends the task
KeystoreErr(i) ==
    /\ AtPc(i, "get_account")
    /\ ~HasAccount(watcher[i].log.log_id)
    /\ Set(i, Failed([watcher[i] EXCEPT !.answer = "notfound"], "keystore"))
    /\ UNCHANGED <<ledger, sup>>
    /\ UNCHANGED cacheVars

\* lines 134-140: the ledger accepts the creation; it is applied to the
\* local account
CreateAccountOk(i) ==
    /\ AtPc(i, "create_account")
    /\ ledger' = Queued(watcher[i].update_tx)
    /\ Set(i, [watcher[i] EXCEPT
                  !.account = process_transaction(DefaultAccount, watcher[i].update_tx),
                  !.attempts = Answered(@, "ok"),
                  !.update_tx = NoTx,
                  !.pc = "watch_log"])
    /\ UNCHANGED sup
    /\ UNCHANGED cacheVars

\* a rejected creation that is submitted again
CreateAccountErr_retries(i) ==
    /\ AtPc(i, "create_account")
    /\ watcher[i].rejects < MaxRejects
    /\ Set(i, [watcher[i] EXCEPT !.attempts = Attempt(Answered(@, "err"), watcher[i].update_tx),
                                 !.rejects = @ + 1])
    /\ UNCHANGED <<ledger, sup>>
    /\ UNCHANGED cacheVars

\* lines 134-137: the ledger rejects the creation and `?` ends the task
CreateAccountErr(i) ==
    /\ AtPc(i, "create_account")
    /\ Set(i, Failed([watcher[i] EXCEPT !.attempts = Answered(@, "err")],
                      "create_account"))
    /\ UNCHANGED <<ledger, sup>>
    /\ UNCHANGED cacheVars

\* lines 150-160: the log's key parses and the CT client is initialised
WatchLogInit(i) ==
    /\ AtPc(i, "watch_log")
    /\ Set(i, [watcher[i] EXCEPT !.last_tree_head = ZeroHash, !.pc = "poll"])
    /\ UNCHANGED <<ledger, sup>>
    /\ UNCHANGED cacheVars

\* a task whose failure ends every task of the process
WatchLogInitErr_ends_all(i) ==
    /\ AtPc(i, "watch_log")
    /\ \E why \in {"log_key", "ct_client"} :
          watcher' = [j \in DOMAIN watcher |-> Failed(watcher[j], why)]
    /\ UNCHANGED <<ledger, sup>>
    /\ UNCHANGED cacheVars

\* lines 150-158: the key does not parse, or the client cannot be
\* initialised, and `?` ends the task
WatchLogInitErr(i) ==
    /\ AtPc(i, "watch_log")
    /\ \E why \in {"log_key", "ct_client"} : Set(i, Failed(watcher[i], why))
    /\ UNCHANGED <<ledger, sup>>
    /\ UNCHANGED cacheVars

\* the checkpoints light_update has returned to the watcher, with or without
\* an error
Polls(w) == Len(w.fetched) + w.anomalies

RECURSIVE PollsOf(_)
\* the checkpoints the logs have returned to these tasks
PollsOf(tasks) ==
    IF tasks = <<>> THEN 0 ELSE Polls(Head(tasks)) + PollsOf(Tail(tasks))

\* the checkpoints the logs have returned to all the tasks
TotalPolls == PollsOf(watcher)

\* the polls a run is followed through: fewer when the tasks run next to
\* the supervisor that spawns them
PollBudget == IF sup.pc = "none" THEN MaxFetches ELSE MaxSystemFetches

RECURSIVE RejectsOf(_)
\* the submissions of these tasks the ledger has rejected
RejectsOf(tasks) ==
    IF tasks = <<>> THEN 0 ELSE Head(tasks).rejects + RejectsOf(Tail(tasks))

\* the submissions of all the tasks the ledger has rejected
TotalRejects == RejectsOf(watcher)

\* a checkpoint joins those the watcher obtained without error
Obtained(w, root) == [w EXCEPT !.fetched = Append(@, root)]

\* a poll that submits every checkpoint it obtains, changed or not
PollOk_every_head(i) ==
    /\ AtPc(i, "poll")
    /\ TotalPolls < PollBudget
    /\ \E root \in RootHashes :
          LET w == Obtained(watcher[i], root)
              update_tx == prepare_transaction(w.account, w.log.log_id, "SetData", root) IN
          Set(i, [w EXCEPT !.last_tree_head = root,
                           !.update_tx = update_tx,
                           !.attempts = Attempt(@, update_tx),
                           !.pc = "submit"])
    /\ UNCHANGED <<ledger, sup>>
    /\ UNCHANGED cacheVars

\* lines 162-206: light_update returns Ok(head). An unchanged root hash
\* sleeps; a changed one is recorded in last_tree_head, the update is built
\* and its first submission starts
PollOk(i) ==
    /\ AtPc(i, "poll")
    /\ TotalPolls < PollBudget
    /\ \E root \in RootHashes :
          LET w == Obtained(watcher[i], root) IN
          IF root = w.last_tree_head
          THEN Set(i, [w EXCEPT !.pc = "sleep"])
          ELSE LET update_tx == prepare_transaction(w.account, w.log.log_id,
                                                    "SetData", root) IN
               Set(i, [w EXCEPT !.last_tree_head = root,
                                !.update_tx = update_tx,
                                !.attempts = Attempt(@, update_tx),
                                !.pc = "submit"])
    /\ UNCHANGED <<ledger, sup>>
    /\ UNCHANGED cacheVars

\* lines 166-172: light_update returns Ok(head) with a changed root hash
\* whose signature does not parse: last_tree_head is set, then `?` ends the
\* task
PollOkBadSignature(i) ==
    /\ AtPc(i, "poll")
    /\ TotalPolls < PollBudget
    /\ \E root \in RootHashes \ {watcher[i].last_tree_head} :
          Set(i, Failed([Obtained(watcher[i], root) EXCEPT !.last_tree_head = root],
                        "signature"))
    /\ UNCHANGED <<ledger, sup>>
    /\ UNCHANGED cacheVars

\* a hard fetch error that ends the task
PollErr_fatal(i) ==
    /\ AtPc(i, "poll")
    /\ Set(i, Failed(watcher[i], "fetch"))
    /\ UNCHANGED <<ledger, sup>>
    /\ UNCHANGED cacheVars

\* lines 207-209: light_update returns Err
PollErr(i) ==
    /\ AtPc(i, "poll")
    /\ Set(i, [watcher[i] EXCEPT !.pc = "sleep"])
    /\ UNCHANGED <<ledger, sup>>
    /\ UNCHANGED cacheVars

\* an anomaly whose checkpoint is submitted like an error-free one
PollErrWithSth_submits(i) ==
    /\ AtPc(i, "poll")
    /\ TotalPolls < PollBudget
    /\ \E root \in RootHashes \ {watcher[i].last_tree_head} :
          LET update_tx == prepare_transaction(watcher[i].account, watcher[i].log.log_id,
                                               "SetData", root) IN
          Set(i, [watcher[i] EXCEPT !.last_tree_head = root,
                                    !.anomalies = @ + 1,
                                    !.update_tx = update_tx,
                                    !.attempts = Attempt(@, update_tx),
                                    !.pc = "submit"])
    /\ UNCHANGED <<ledger, sup>>
    /\ UNCHANGED cacheVars

\* lines 210-217: light_update returns ErrWithSth
PollErrWithSth(i) ==
    /\ AtPc(i, "poll")
    /\ TotalPolls < PollBudget
    /\ \E root \in RootHashes :
          Set(i, [watcher[i] EXCEPT
                     !.last_tree_head = IF root # @ THEN root ELSE @,
                     !.anomalies = @ + 1,
                     !.pc = "sleep"])
    /\ UNCHANGED <<ledger, sup>>
    /\ UNCHANGED cacheVars

\* lines 189-197 and 204: the ledger accepts the update; the loop breaks and
\* the update is applied to the local account
SubmitOk(i) ==
    /\ AtPc(i, "submit")
    /\ ledger' = Queued(watcher[i].update_tx)
    /\ Set(i, [watcher[i] EXCEPT
                  !.account = process_transaction(@, watcher[i].update_tx),
                  !.attempts = Answered(@, "ok"),
                  !.update_tx = NoTx,
                  !.pc = "sleep"])
    /\ UNCHANGED sup
    /\ UNCHANGED cacheVars

\* a rejection after which the update is applied to the local account all
\* the same
SubmitErr_applies(i) ==
    /\ AtPc(i, "submit")
    /\ TotalRejects < MaxRejects
    /\ Set(i, [watcher[i] EXCEPT !.attempts = Answered(@, "err"),
                                 !.account = process_transaction(@, watcher[i].update_tx),
                                 !.rejects = @ + 1, !.pc = "backoff"])
    /\ UNCHANGED <<ledger, sup>>
    /\ UNCHANGED cacheVars

\* lines 198-201: the ledger rejects the update; the watcher sleeps a second
SubmitErr(i) ==
    /\ AtPc(i, "submit")
    /\ TotalRejects < MaxRejects
    /\ Set(i, [watcher[i] EXCEPT !.attempts = Answered(@, "err"),
                                 !.rejects = @ + 1, !.pc = "backoff"])
    /\ UNCHANGED <<ledger, sup>>
    /\ UNCHANGED cacheVars

\* a watcher that gives its update up after the backoff and polls again
Retry_gives_up(i) ==
    /\ AtPc(i, "backoff")
    /\ Set(i, [watcher[i] EXCEPT !.update_tx = NoTx, !.pc = "poll"])
    /\ UNCHANGED <<ledger, sup>>
    /\ UNCHANGED cacheVars

\* lines 188-192: after the backoff the same update_tx is submitted again
Retry(i) ==
    /\ AtPc(i, "backoff")
    /\ Set(i, [watcher[i] EXCEPT !.attempts = Attempt(@, watcher[i].update_tx),
                                 !.pc = "submit"])
    /\ UNCHANGED <<ledger, sup>>
    /\ UNCHANGED cacheVars

\* line 220: the interval has passed
Wake(i) ==
    /\ AtPc(i, "sleep")
    /\ Set(i, [watcher[i] EXCEPT !.pc = "poll"])
    /\ UNCHANGED <<ledger, sup>>
    /\ UNCHANGED cacheVars

\* create_log_account, lines 96-141
CreateLogAccount(i) ==
    \/ GetAccountErr(i)
    \/ GetAccountFound(i)
    \/ GetAccountNotFound(i)
    \/ KeystoreErr(i)
    \/ CreateAccountOk(i)
    \/ CreateAccountErr(i)

\* watch_log, lines 143-222
WatchLog(i) ==
    \/ WatchLogInit(i)
    \/ WatchLogInitErr(i)
    \/ PollOk(i)
    \/ PollOkBadSignature(i)
    \/ PollErr(i)
    \/ PollErrWithSth(i)
    \/ SubmitOk(i)
    \/ SubmitErr(i)
    \/ Retry(i)
    \/ Wake(i)

----------------------------------------------------------------------------
(* The supervisor: monitor_operators and register_ct_service *)

\* the operator lists a caller passes to monitor_operators
Requests == UNION {[1..n -> OperatorNames] : n \in 0..MaxRequested}

\* monitor_operators returns Err
Bailed(su, why) == [su EXCEPT !.pc = "returned", !.ret = why]

\* lines 23-31: monitor_operators is called; it constructs its own
\* CachingLogListService::default() and calls register_ct_service, which
\* calls get_account (line 56)
Start ==
    /\ sup.pc \in {"none", "returned"}
    /\ sup.starts < MaxStarts
    /\ \E operators \in Requests :
          sup' = [NoSupervisor EXCEPT !.pc = "register",
                                      !.starts = sup.starts + 1,
                                      !.registrations = sup.registrations,
                                      !.operators = operators,
                                      !.ret = "running"]
    /\ cache' = DefaultCachedLogs
    /\ UNCHANGED <<clock, remote, lock, call, ledger, watcher>>

\* line 56: get_account fails and `?` returns the error; line 31 returns it
RegisterGetAccountErr ==
    /\ sup.pc = "register"
    /\ sup' = Bailed([sup EXCEPT !.held = HasAccount(CT_SERVICE_KEY_ID),
                                 !.answer = "err"], "get_account")
    /\ UNCHANGED <<ledger, watcher>>
    /\ UNCHANGED cacheVars

\* a bootstrap that registers the service whether or not its account is found
RegisterFound_registers_again ==
    /\ sup.pc = "register"
    /\ HasAccount(CT_SERVICE_KEY_ID)
    /\ sup' = [sup EXCEPT !.held = TRUE, !.answer = "found", !.pc = "keystore"]
    /\ UNCHANGED <<ledger, watcher>>
    /\ UNCHANGED cacheVars

\* lines 56-59: the service's account is found: nothing to do
RegisterFound ==
    /\ sup.pc = "register"
    /\ HasAccount(CT_SERVICE_KEY_ID)
    /\ sup' = [sup EXCEPT !.held = TRUE, !.answer = "found", !.pc = "loop"]
    /\ UNCHANGED <<ledger, watcher>>
    /\ UNCHANGED cacheVars

\* line 56: the account is not found
RegisterNotFound ==
    /\ sup.pc = "register"
    /\ ~HasAccount(CT_SERVICE_KEY_ID)
    /\ sup' = [sup EXCEPT !.answer = "notfound", !.pc = "keystore"]
    /\ UNCHANGED <<ledger, watcher>>
    /\ UNCHANGED cacheVars

\* lines 61-63: the keystore has no signing key and `?` returns the error
RegisterKeystoreErr ==
    /\ sup.pc = "keystore"
    /\ sup' = Bailed(sup, "keystore")
    /\ UNCHANGED <<ledger, watcher>>
    /\ UNCHANGED cacheVars

\* lines 65-83: the registration is prepared on a default account and
\* submitted; the ledger accepts it
RegisterSubmitOk ==
    /\ sup.pc = "keystore"
    /\ LET register_tx == prepare_transaction(DefaultAccount, CT_SERVICE_KEY_ID,
                                              "RegisterService", "none") IN
       ledger' = Queued(register_tx)
    /\ sup' = [sup EXCEPT !.submitted = @ + 1, !.registrations = @ + 1,
                          !.accepted = "ok", !.pc = "loop"]
    /\ UNCHANGED watcher
    /\ UNCHANGED cacheVars

\* a supervisor that goes on to its operators although the registration was
\* rejected
RegisterSubmitErr_goes_on ==
    /\ sup.pc = "keystore"
    /\ sup' = [sup EXCEPT !.submitted = @ + 1, !.registrations = @ + 1,
                          !.accepted = "err", !.pc = "loop"]
    /\ UNCHANGED <<ledger, watcher>>
    /\ UNCHANGED cacheVars

\* lines 77-81: the ledger rejects the registration and `?` returns the error
RegisterSubmitErr ==
    /\ sup.pc = "keystore"
    /\ sup' = Bailed([sup EXCEPT !.submitted = @ + 1, !.registrations = @ + 1,
                                 !.accepted = "err"], "register")
    /\ UNCHANGED <<ledger, watcher>>
    /\ UNCHANGED cacheVars

\* line 34: get_all_by_operator is called for the next operator
Resolve ==
    /\ sup.pc = "loop"
    /\ sup.next <= Len(sup.operators)
    /\ Enter("sup", "get_all_by_operator", sup.operators[sup.next])

\* lines 34-36: the resolution failed: bail!
ResolveErr ==
    /\ sup.pc = "loop"
    /\ call["sup"].pc = "done"
    /\ ~call["sup"].result.ok
    /\ sup' = Bailed(sup, "resolve")
    /\ call' = [call EXCEPT !["sup"] = IdleCall]
    /\ UNCHANGED <<clock, remote, cache, lock, ledger, watcher>>

\* lines 38-49: one task is spawned for each log of the operator
Spawn ==
    /\ sup.pc = "loop"
    /\ call["sup"].pc = "done"
    /\ call["sup"].result.ok
    /\ LET logs == call["sup"].result.value IN
       /\ Len(watcher) + Len(logs) <= MaxWatchers
       /\ watcher' = watcher \o [k \in 1..Len(logs) |-> SpawnedWatcher(logs[k])]
       /\ sup' = [sup EXCEPT !.next = @ + 1, !.spawned = @ + Len(logs)]
    /\ call' = [call EXCEPT !["sup"] = IdleCall]
    /\ UNCHANGED <<clock, remote, cache, lock, ledger>>

\* line 52: every operator is dealt with: Ok(())
ReturnOk ==
    /\ sup.pc = "loop"
    /\ sup.next > Len(sup.operators)
    /\ sup' = [sup EXCEPT !.pc = "returned", !.ret = "ok"]
    /\ UNCHANGED <<ledger, watcher>>
    /\ UNCHANGED cacheVars

\* register_ct_service
RegisterCtService ==
    \/ RegisterGetAccountErr
    \/ RegisterFound
    \/ RegisterNotFound
    \/ RegisterKeystoreErr
    \/ RegisterSubmitOk
    \/ RegisterSubmitErr

\* the loop of monitor_operators
MonitorOperators ==
    \/ Resolve
    \/ Access("sup")
    \/ ResolveErr
    \/ Spawn
    \/ ReturnOk

\* the system clock is set back (SystemTime is not monotonic)
ClockSetBack ==
    /\ clock > CacheDuration
    /\ clock' = clock - 1
    /\ UNCHANGED <<remote, cache, lock, call>>
    /\ UNCHANGED monitorVars

----------------------------------------------------------------------------
(* Spec: clients use one CachingLogListService concurrently *)

\* the service is constructed long after UNIX_EPOCH: a cache that was never
\* refreshed is stale
Init ==
    /\ clock = CacheDuration
    /\ remote \in SampleDirectories
    /\ cache = DefaultCachedLogs
    /\ lock = "none"
    /\ call = [c \in Callers |-> IdleCall]
    /\ ledger = EmptyLedger
    /\ watcher = <<>>
    /\ sup = NoSupervisor

Next ==
    \/ \E c \in Clients : ClientCall(c)
    \/ \E c \in Clients : Access(c)
    \/ \E c \in Clients : Return(c)
    \/ Tick
    \/ Publish

Spec == Init /\ [][Next]_vars

----------------------------------------------------------------------------
(* SpecIndex: the index rebuild and the two lookups, applied to every      *)
(* directory within the bounds                                             *)

InitIndex ==
    /\ clock = CacheDuration
    /\ remote = LogList(<<>>)
    /\ cache = DefaultCachedLogs
    /\ lock = "none"
    /\ call = [c \in Callers |-> IdleCall]
    /\ ledger = EmptyLedger
    /\ watcher = <<>>
    /\ sup = NoSupervisor

\* a successful refresh of the never-refreshed cache, lines 78-106: the fetch
\* returns any directory within the bounds
IndexRefresh ==
    /\ ~IsFresh(clock, cache.last_updated)
    /\ \E k \in 0..MaxOps, n \in 0..MaxLogs :
          \E names \in [1..k -> OperatorNames], logs \in [1..n -> Logs],
             owner \in Owners(k, n) :
              /\ remote' = Directory(names, logs, owner)
              /\ cache' = Rebuild(remote', clock)
    /\ UNCHANGED <<clock, lock, call>>
    /\ UNCHANGED monitorVars

\* get_by_id on the refreshed cache: lines 46-50
IndexGetById ==
    /\ call["c1"].pc = "idle"
    /\ IsFresh(clock, cache.last_updated)
    /\ \E id \in QueriedIds :
          call' = [call EXCEPT !["c1"] =
                      [IdleCall EXCEPT !.pc = "done", !.op = "get_by_id", !.arg = id,
                                       !.now = clock, !.seen = cache.last_updated,
                                       !.fresh = TRUE, !.served = TRUE,
                                       !.result = LookupById(cache, id)]]
    /\ UNCHANGED <<clock, remote, cache, lock>>
    /\ UNCHANGED monitorVars

\* get_all_by_operator on the refreshed cache: lines 55-60
IndexGetAllByOperator ==
    /\ call["c1"].pc = "idle"
    /\ IsFresh(clock, cache.last_updated)
    /\ \E operator \in OperatorNames \cup QueriedOperators :
          call' = [call EXCEPT !["c1"] =
                      [IdleCall EXCEPT !.pc = "done", !.op = "get_all_by_operator",
                                       !.arg = operator,
                                       !.now = clock, !.seen = cache.last_updated,
                                       !.fresh = TRUE, !.served = TRUE,
                                       !.result = LookupByOperator(cache, operator)]]
    /\ UNCHANGED <<clock, remote, cache, lock>>
    /\ UNCHANGED monitorVars

NextIndex ==
    \/ IndexRefresh
    \/ IndexGetById
    \/ IndexGetAllByOperator

SpecIndex == InitIndex /\ [][NextIndex]_vars

----------------------------------------------------------------------------
(* SpecWatcher: one spawned watcher and the ledger *)

\* the account of the registered service
ServiceAccount ==
    CreatedAccount(prepare_transaction(DefaultAccount, CT_SERVICE_KEY_ID,
                                       "RegisterService", "none"))

\* the account of a log on the ledger, left by an earlier run
LogAccount(id) ==
    CreatedAccount(prepare_transaction(DefaultAccount, id, "CreateAccount", "none"))

\* the service is registered, the log's account exists or not, and the task
\* of one usable log was spawned
InitWatcher ==
    /\ clock = CacheDuration
    /\ remote = DirAcme
    /\ cache = DefaultCachedLogs
    /\ lock = "none"
    /\ call = [c \in Callers |-> IdleCall]
    /\ ledger \in {[accounts |-> {ServiceAccount}, queue |-> <<>>],
                   [accounts |-> {ServiceAccount, LogAccount("L1")}, queue |-> <<>>]}
    /\ watcher = <<SpawnedWatcher(Log("L1", "usable"))>>
    /\ sup = NoSupervisor

NextWatcher ==
    \/ \E i \in WatcherIds : MonitorLog(i)
    \/ \E i \in WatcherIds : CreateLogAccount(i)
    \/ \E i \in WatcherIds : WatchLog(i)
    \/ LedgerApply

SpecWatcher == InitWatcher /\ [][NextWatcher]_vars

\* SpecWatcherLive: the runtime goes on polling the task, so a backoff ends
\* and the update is submitted again; and the ledger does not reject an update
\* for ever
SpecWatcherLive ==
    /\ SpecWatcher
    /\ \A i \in WatcherIds : WF_vars(Retry(i)) /\ WF_vars(SubmitOk(i))

----------------------------------------------------------------------------
(* SpecSupervisor: monitor_operators is called, once or again, against a   *)
(* ledger on which the service is registered or not                        *)

InitSupervisor ==
    /\ clock = CacheDuration
    /\ remote \in SampleDirectories
    /\ cache = DefaultCachedLogs
    /\ lock = "none"
    /\ call = [c \in Callers |-> IdleCall]
    /\ ledger \in {EmptyLedger, [accounts |-> {ServiceAccount}, queue |-> <<>>]}
    /\ watcher = <<>>
    /\ sup = NoSupervisor

NextSupervisor ==
    \/ Start
    \/ RegisterCtService
    \/ MonitorOperators
    \/ LedgerApply
    \/ Tick
    \/ ClockSetBack

SpecSupervisor == InitSupervisor /\ [][NextSupervisor]_vars

----------------------------------------------------------------------------
(* SpecSystem: one call of monitor_operators and the tasks it spawns,      *)
(* running together                                                        *)

\* monitor_operators was just called with some list of operators
InitSystem ==
    /\ clock = CacheDuration
    /\ remote \in SampleDirectories \cup {DirBoth}
    /\ cache = DefaultCachedLogs
    /\ lock = "none"
    /\ call = [c \in Callers |-> IdleCall]
    /\ ledger \in {EmptyLedger, [accounts |-> {ServiceAccount}, queue |-> <<>>]}
    /\ watcher = <<>>
    /\ \E operators \in Requests :
          sup = [NoSupervisor EXCEPT !.pc = "register", !.starts = 1,
                                     !.operators = operators, !.ret = "running"]

NextSystem ==
    \/ RegisterCtService
    \/ MonitorOperators
    \/ \E i \in WatcherIds : MonitorLog(i)
    \/ \E i \in WatcherIds : CreateLogAccount(i)
    \/ \E i \in WatcherIds : WatchLog(i)
    \/ LedgerApply

SpecSystem == InitSystem /\ [][NextSystem]_vars

----------------------------------------------------------------------------
(* Helpers of the properties *)

Range(f) == {f[x] : x \in DOMAIN f}

\* the positions of the operator entries of a directory that carry a name
EntriesNamed(dir, name) == {k \in 1..Len(dir.operators) : dir.operators[k].name = name}

\* every log of a directory, whatever its operator
LogsOf(dir) == UNION {Range(dir.operators[k].logs) : k \in 1..Len(dir.operators)}

Max(S) == CHOOSE x \in S : \A y \in S : y <= x

\* the cache holds a rebuild (it was refreshed at least once)
Refreshed == cache.last_updated # UNIX_EPOCH

\* a call of op has returned what it read in the cache
Served(c, op) == call[c].pc = "done" /\ call[c].op = op /\ call[c].served

----------------------------------------------------------------------------
(* C1 *)

\* No result of a lookup holds a log that is not Usable in the fetched directory
OnlyUsableServed ==
    /\ Served("c1", "get_by_id") /\ call["c1"].result.ok =>
          /\ call["c1"].result.value \in LogsOf(remote)
          /\ call["c1"].result.value.state = "usable"
          /\ call["c1"].result.value.log_id = call["c1"].arg
    /\ Served("c1", "get_all_by_operator") =>
          /\ call["c1"].result.ok
          /\ \A log \in Range(call["c1"].result.value) :
                /\ log.state = "usable"
                /\ \E k \in EntriesNamed(remote, call["c1"].arg) :
                      log \in Range(remote.operators[k].logs)

\* C1 as stated: after a successful refresh a log is returned by get_by_id or
\* get_all_by_operator iff it is Usable in the fetched directory: non-usable
\* logs never appear, get_by_id finds every id a Usable log has, and every
\* Usable log of an operator appears in get_all_by_operator for that operator.
C1_AsStated ==
    Refreshed =>
        /\ OnlyUsableServed
        /\ Served("c1", "get_by_id") =>
              (call["c1"].result.ok <=>
                  \E log \in LogsOf(remote) :
                      is_usable(log) /\ log.log_id = call["c1"].arg)
        /\ Served("c1", "get_all_by_operator") =>
              \A k \in EntriesNamed(remote, call["c1"].arg) :
                  \A log \in Range(remote.operators[k].logs) :
                      log.state = "usable" => log \in Range(call["c1"].result.value)

\* C1, amended: after a successful refresh non-usable logs never appear in
\* either result, get_by_id(id) returns a log iff some Usable log of the
\* directory has that id, and get_all_by_operator(name) returns exactly the
\* Usable logs, in directory order, of the LAST operator entry named name
\* (an earlier entry of the same name is replaced); an unknown name gives
\* the empty list.
C1_UsableOfLastEntry ==
    Refreshed =>
        /\ OnlyUsableServed
        /\ Served("c1", "get_by_id") =>
              (call["c1"].result.ok <=>
                  \E log \in LogsOf(remote) :
                      log.state = "usable" /\ log.log_id = call["c1"].arg)
        /\ Served("c1", "get_all_by_operator") =>
              LET entries == EntriesNamed(remote, call["c1"].arg) IN
              call["c1"].result.value =
                  IF entries = {} THEN <<>>
                  ELSE SelectSeq(remote.operators[Max(entries)].logs,
                                 LAMBDA log : log.state = "usable")

\* C1's case: a lookup by operator returned a Usable log of a directory that
\* also holds a log that is not Usable
C1_Witness ==
    /\ Refreshed
    /\ Served("c1", "get_all_by_operator")
    /\ call["c1"].result.value # <<>>
    /\ \E log \in LogsOf(remote) : log.state # "usable"

----------------------------------------------------------------------------
(* C2 *)

\* a call of get_all_by_operator for the operator no directory names has returned
GhostReturned(c) ==
    /\ call[c].pc = "done"
    /\ call[c].op = "get_all_by_operator"
    /\ call[c].arg = "Ghost"

\* C2 as stated: get_all_by_operator for an operator that is not in the
\* directory returns the empty list and never an error, whether the cache was
\* fresh, expired or never refreshed at the call.
C2_AsStated ==
    \A c \in Clients : GhostReturned(c) => call[c].result = Ok(<<>>)

\* C2, amended: get_all_by_operator for an operator that is not in the
\* directory returns the empty list whenever the cache is fresh or the refresh
\* the call performs succeeds; when the cache is stale (expired or never
\* refreshed) and the directory fetch fails, it returns that fetch's error.
C2_EmptyUnlessFetchFails ==
    \A c \in Clients :
        GhostReturned(c) =>
            IF call[c].fresh \/ call[c].fetch = "ok"
            THEN call[c].result = Ok(<<>>)
            ELSE /\ ~call[c].result.ok
                 /\ call[c].fetch \in LogListErrorVariants
                 /\ call[c].result.variant = call[c].fetch

\* C2's case: the unknown operator was looked up in a cache that holds logs
C2_Witness ==
    \E c \in Clients :
        /\ GhostReturned(c)
        /\ call[c].served
        /\ cache.logs # <<>>
        /\ call[c].result = Ok(<<>>)

----------------------------------------------------------------------------
(* C3 *)

\* the freshness check of c's access is over
Checked(c) == call[c].pc \notin {"idle", "entered", "checking"}

\* now - last_updated as the access computed it; negative when last_updated
\* is later than the access's now
Elapsed(c) == call[c].now - call[c].seen

\* C3 as stated: an access performs exactly one fetch before serving data when
\* the time elapsed since last_refreshed is at least the time-to-live, and no
\* fetch when the elapsed time is smaller than the time-to-live.
C3_AsStated ==
    \A c \in Clients :
        Checked(c) =>
            /\ Elapsed(c) >= CacheDuration => call[c].fetches = 1
            /\ Elapsed(c) < CacheDuration => call[c].fetches = 0

\* C3, amended: an access performs exactly one fetch, before it serves data,
\* when the elapsed time is at least the time-to-live or when last_refreshed
\* is later than the access's own now (another access refreshed in between:
\* duration_since fails); it performs no fetch when the elapsed time is at
\* least zero and smaller than the time-to-live.
C3_OneFetchWhenStale ==
    \A c \in Clients :
        /\ call[c].fetches <= 1
        /\ Checked(c) =>
              /\ (Elapsed(c) >= CacheDuration \/ Elapsed(c) < 0) => call[c].fetches = 1
              /\ (0 <= Elapsed(c) /\ Elapsed(c) < CacheDuration) => call[c].fetches = 0
        /\ call[c].served /\ call[c].fetches = 1 => call[c].fetch = "ok"

\* C3's case: an access found an expired cache and served data after its fetch
C3_Witness ==
    \E c \in Clients :
        /\ call[c].pc = "done"
        /\ call[c].served
        /\ call[c].seen # UNIX_EPOCH
        /\ Elapsed(c) >= CacheDuration
        /\ call[c].fetches = 1

----------------------------------------------------------------------------
(* C8 *)

\* C8: get_by_id for an id no usable log has after a refresh fails with a
\* dedicated not-found outcome, distinct from the directory's network error
\* and parse error.
C8_NotFoundIsDedicated ==
    \A c \in Clients :
        (Served(c, "get_by_id") /\ ~call[c].result.ok) =>
            call[c].result.variant \notin LogListErrorVariants

----------------------------------------------------------------------------
(* C4 *)

\* the root hashes of the update (SetData) submissions a watcher attempted
RECURSIVE UpdateRoots(_)
UpdateRoots(attempts) ==
    IF attempts = <<>> THEN <<>>
    ELSE LET rest == UpdateRoots(SubSeq(attempts, 1, Len(attempts) - 1))
             last == attempts[Len(attempts)] IN
         IF last.tx.op = "SetData" THEN Append(rest, last.tx.data) ELSE rest

\* the watcher was fed the error-free checkpoints A, A, B, B, C, the ledger
\* accepted every submission at the first attempt, and all are dealt with
FedAABBC(w) ==
    /\ w.fetched = <<"A", "A", "B", "B", "C">>
    /\ w.anomalies = 0
    /\ w.rejects = 0
    /\ w.pc \in {"sleep", "poll"}

\* a watcher starts to submit a new update
StartsUpdate(i) ==
    /\ i \in DOMAIN watcher
    /\ watcher[i].pc = "poll"
    /\ watcher'[i].pc = "submit"

\* C4 as stated: a watcher that just finished bootstrapping and is fed the
\* error-free checkpoints A, A, B, B, C, each submission accepted at the
\* first attempt, makes exactly two submission attempts, for B and for C.
C4_AsStated ==
    \A i \in DOMAIN watcher :
        FedAABBC(watcher[i]) => UpdateRoots(watcher[i].attempts) = <<"B", "C">>

\* C4, amended: such a watcher makes exactly three submission attempts, for
\* the first A, for B and for C (last_seen_root_hash starts as the all-zero
\* hash, from which the first A differs); in general a submission is started
\* only for a checkpoint whose root hash differs from last_seen_root_hash.
C4_ThreeAttempts ==
    /\ [](\A i \in DOMAIN watcher :
            FedAABBC(watcher[i]) => UpdateRoots(watcher[i].attempts) = <<"A", "B", "C">>)
    /\ [][\A i \in WatcherIds :
            StartsUpdate(i) =>
                /\ watcher'[i].update_tx.data = watcher'[i].fetched[Len(watcher'[i].fetched)]
                /\ watcher'[i].update_tx.data # watcher[i].last_tree_head]_vars

\* C4's case: the five checkpoints were fed and dealt with
C4_Witness == \E i \in DOMAIN watcher : FedAABBC(watcher[i])

----------------------------------------------------------------------------
(* C5 *)

\* the watcher is past its bootstrap and running
Watching(w) == w.pc \in {"poll", "submit", "backoff", "sleep"}

\* the account the watcher had when it entered watch_log
BootstrapAccount(w) ==
    IF w.attempts # <<>> /\ w.attempts[1].tx.op = "CreateAccount"
    THEN CreatedAccount(w.attempts[1].tx)
    ELSE LogAccount(w.log.log_id)

RECURSIVE ApplyAcknowledged(_, _)
\* the account after the acknowledged updates among the attempts, in order
ApplyAcknowledged(account, attempts) ==
    IF attempts = <<>> THEN account
    ELSE LET a == Head(attempts) IN
         ApplyAcknowledged(
             IF a.result = "ok" /\ a.tx.op = "SetData"
             THEN process_transaction(account, a.tx) ELSE account,
             Tail(attempts))

\* C5: an update the ledger rejects N times and then accepts is attempted
\* exactly N+1 times, every attempt carrying the identical transaction: each
\* rejected attempt is followed by an attempt of the same transaction (or by
\* its backoff), no transaction is attempted again once acknowledged, and the
\* local account is the bootstrap account with exactly the acknowledged
\* updates applied, once each, so it is unchanged while attempts are rejected.
C5_RetrySameUntilAcked ==
    \A i \in DOMAIN watcher :
        LET w == watcher[i]
            a == w.attempts IN
        Watching(w) =>
            /\ \A k \in DOMAIN a :
                  /\ a[k].result = "err" =>
                        IF k < Len(a) THEN a[k + 1].tx = a[k].tx ELSE w.pc = "backoff"
                  /\ a[k].result = "pending" => k = Len(a) /\ w.pc = "submit"
                  /\ a[k].result = "ok" => \A j \in DOMAIN a : j > k => a[j].tx # a[k].tx
            /\ w.pc \in {"submit", "backoff"} => a[Len(a)].tx = w.update_tx
            /\ w.account = ApplyAcknowledged(BootstrapAccount(w), a)

\* C5's case: an update was rejected twice and then acknowledged
C5_Witness ==
    \E i \in DOMAIN watcher :
        LET a == watcher[i].attempts IN
        /\ Watching(watcher[i])
        /\ Len(a) >= 3
        /\ a[Len(a)].result = "ok"
        /\ a[Len(a) - 1].result = "err"
        /\ a[Len(a) - 2].result = "err"
        /\ a[Len(a) - 2].tx = a[Len(a)].tx

----------------------------------------------------------------------------
(* C6 *)

\* C6: last_seen_root_hash takes the new checkpoint's root hash only after
\* the ledger acknowledged the submission: while an update is outstanding or
\* retried, and when building the update failed, last_seen_root_hash is not
\* yet the root hash of the changed checkpoint.
C6_SeenOnlyAfterAck ==
    \A i \in DOMAIN watcher :
        LET w == watcher[i] IN
        /\ w.pc \in {"submit", "backoff"} => w.last_tree_head # w.update_tx.data
        /\ w.ret = "signature" => w.last_tree_head # w.fetched[Len(w.fetched)]

----------------------------------------------------------------------------
(* C7 *)

\* C7: service registration is idempotent: a bootstrap whose account query
\* is made on a ledger that holds the service's account submits no
\* registration; a registration is submitted only after the query answered
\* not found, and at most once in a bootstrap.
C7_RegistrationIdempotent ==
    /\ sup.held => sup.submitted = 0
    /\ sup.submitted > 0 => sup.answer = "notfound"
    /\ sup.submitted <= 1

\* C7's case: the bootstrap ran a second time on a ledger that held the
\* account all along, and no registration was ever submitted
C7_Witness ==
    /\ sup.starts = 2
    /\ sup.pc = "returned"
    /\ sup.answer = "found"
    /\ sup.held
    /\ sup.registrations = 0

----------------------------------------------------------------------------
(* C9 *)

\* monitor_operators returned an error
StartFailed == sup.pc = "returned" /\ sup.ret # "ok"

\* C9: a call of start spawns a watcher only after its service-identity check
\* succeeded (account found, or registration accepted); when the account
\* query or the registration submission fails, start has returned an error
\* and the call spawns no watcher.
C9_NoWatcherBeforeRegistered ==
    /\ sup.spawned > 0 => sup.answer = "found" \/ sup.accepted = "ok"
    /\ sup.answer = "err" \/ sup.accepted = "err" => StartFailed /\ sup.spawned = 0

\* C9's case: the ledger rejected the registration
C9_Witness == sup.accepted = "err" /\ StartFailed /\ sup.operators # <<>>

----------------------------------------------------------------------------
(* C10 *)

\* C10: when start returns an error, the call has spawned no watcher for any
\* operator of the request.
C10_NoWatcherWhenStartFails == StartFailed => sup.spawned = 0

----------------------------------------------------------------------------
(* C11 *)

\* a call of validate_and_queue_update by the task is in flight
Outstanding(w) == w.pc \in {"create_account", "submit"}

\* C11: submissions for one log identifier are strictly ordered: at no time
\* do two tasks have a submission (account creation or update) for the same
\* log_id outstanding together, whatever list of operators was passed to
\* start and whatever the directory holds.
C11_OneOutstandingPerLog ==
    \A i, j \in DOMAIN watcher :
        /\ i # j
        /\ watcher[i].log.log_id = watcher[j].log.log_id
        => ~(Outstanding(watcher[i]) /\ Outstanding(watcher[j]))

----------------------------------------------------------------------------
(* C12 *)

\* the creation transactions the task submitted
Creations(w) == {k \in DOMAIN w.attempts : w.attempts[k].tx.op = "CreateAccount"}

\* the task is past create_log_account
Bootstrapped(w) == w.pc = "watch_log" \/ Watching(w)

\* C12 as stated: a watcher whose ledger has the log's account adopts it and
\* submits no creation; every other watcher submits the creation exactly
\* once.
C12_AsStated ==
    \A i \in DOMAIN watcher :
        LET w == watcher[i] IN
        w.answer # "none" =>
            IF w.held
            THEN Creations(w) = {} /\ w.ret # "get_account"
            ELSE Cardinality(Creations(w)) = 1

\* C12, amended: a watcher whose account query answers Found adopts that
\* account and submits no creation; one whose query answers NotFound and
\* whose signing key is available submits the creation exactly once, has it
\* applied to its local account only when the ledger accepted it, and on a
\* rejection ends, with the default account, no retry and no poll; a watcher
\* whose query fails or whose signing key is missing ends without submitting
\* anything.
C12_CreateOnceOrAdopt ==
    \A i \in DOMAIN watcher :
        LET w == watcher[i]
            a == w.attempts IN
        /\ Cardinality(Creations(w)) <= 1
        /\ Creations(w) # {} => w.answer = "notfound" /\ Creations(w) = {1}
        /\ w.answer = "found" /\ w.pc = "watch_log" =>
              w.held /\ w.account = AccountOf(w.log.log_id)
        /\ w.answer = "notfound" /\ Bootstrapped(w) =>
              /\ Creations(w) = {1}
              /\ a[1].result = "ok"
              /\ w.pc = "watch_log" => w.account = CreatedAccount(a[1].tx)
        /\ w.pc = "create_account" => a[1].result = "pending" /\ w.account = DefaultAccount
        /\ Creations(w) = {1} /\ a[1].result = "err" =>
              /\ w.pc = "ended" /\ w.ret = "create_account"
              /\ Len(a) = 1
              /\ w.account = DefaultAccount
              /\ Polls(w) = 0
        /\ w.answer = "err" \/ w.ret = "keystore" =>
              w.pc = "ended" /\ a = <<>> /\ Polls(w) = 0

\* C12's case: the ledger rejected the creation and the task has ended
C12_Witness ==
    \E i \in DOMAIN watcher :
        /\ watcher[i].answer = "notfound"
        /\ watcher[i].attempts # <<>>
        /\ watcher[i].attempts[1].result = "err"
        /\ watcher[i].pc = "ended"

----------------------------------------------------------------------------
(* C13 *)

\* the attempts of the task that have no answer yet
Pending(w) == {k \in DOMAIN w.attempts : w.attempts[k].result = "pending"}

\* the task has an update it has not seen acknowledged
UpdateOutstanding(w) == w.pc \in {"submit", "backoff"}

\* C13: while a watcher has an update outstanding, backoffs included, it
\* fetches no checkpoint and builds no other update: it stays with that
\* update until the ledger acknowledged it, what it obtained and saw of its
\* log is unchanged meanwhile, and at most one of its submissions is pending
\* at any time.
C13_NoFetchWhileOutstanding ==
    /\ [](\A i \in DOMAIN watcher :
            /\ Cardinality(Pending(watcher[i])) <= 1
            /\ UpdateOutstanding(watcher[i]) => watcher[i].update_tx.op = "SetData")
    /\ [][\A i \in WatcherIds :
            i \in DOMAIN watcher /\ UpdateOutstanding(watcher[i]) =>
                LET w == watcher[i]
                    v == watcher'[i] IN
                /\ v.pc \in {"submit", "backoff", "sleep"}
                /\ v.fetched = w.fetched
                /\ v.anomalies = w.anomalies
                /\ v.last_tree_head = w.last_tree_head
                /\ UpdateOutstanding(v) => v.update_tx = w.update_tx
                /\ v.pc = "sleep" =>
                      /\ w.pc = "submit"
                      /\ v.attempts[Len(v.attempts)] = [tx |-> w.update_tx, result |-> "ok"]]_vars

\* C13's case: an update is in its second backoff
C13_Witness ==
    \E i \in DOMAIN watcher :
        /\ watcher[i].pc = "backoff"
        /\ watcher[i].rejects = 2
        /\ Cardinality({k \in DOMAIN watcher[i].attempts :
                           watcher[i].attempts[k].tx = watcher[i].update_tx}) = 2

----------------------------------------------------------------------------
(* C14 *)

\* the task takes a step in which a fetch returns an error with a checkpoint
Anomaly(i) ==
    /\ i \in DOMAIN watcher
    /\ watcher'[i].anomalies = watcher[i].anomalies + 1

\* C14: a fetch that returns an error together with a checkpoint makes the
\* watcher submit nothing and leaves its local account alone: of the
\* watcher's state only last_seen_root_hash may change, to a root hash of the
\* log, and the watcher sleeps until its next poll; the ledger is unchanged.
C14_AnomalyOnlyObserved ==
    [][\A i \in WatcherIds :
          Anomaly(i) =>
              /\ watcher[i].pc = "poll"
              /\ watcher'[i] = [watcher[i] EXCEPT
                                   !.last_tree_head = watcher'[i].last_tree_head,
                                   !.anomalies = @ + 1,
                                   !.pc = "sleep"]
              /\ watcher'[i].last_tree_head \in RootHashes
              /\ ledger' = ledger]_vars

\* C14's case: an anomaly changed last_seen_root_hash of a watcher that has
\* an acknowledged update
C14_Witness ==
    \E i \in DOMAIN watcher :
        /\ watcher[i].anomalies > 0
        /\ watcher[i].pc = "sleep"
        /\ watcher[i].account.data \in RootHashes
        /\ watcher[i].last_tree_head # watcher[i].account.data
        /\ watcher[i].last_tree_head # watcher[i].fetched[Len(watcher[i].fetched)]

----------------------------------------------------------------------------
(* C15 *)

\* the task takes a step from a poll in which it obtains no checkpoint
HardError(i) ==
    /\ i \in DOMAIN watcher
    /\ watcher[i].pc = "poll"
    /\ watcher'[i] # watcher[i]
    /\ Polls(watcher'[i]) = Polls(watcher[i])

\* C15: a hard fetch error is not fatal and changes nothing: the watcher
\* goes to sleep with last_seen_root_hash, its account and its submissions as
\* they were, the ledger is unchanged, and the next step of a sleeping
\* watcher is its next poll.
C15_HardErrorChangesNothing ==
    [][\A i \in WatcherIds :
          /\ HardError(i) =>
                /\ watcher'[i] = [watcher[i] EXCEPT !.pc = "sleep"]
                /\ ledger' = ledger
          /\ AtPc(i, "sleep") /\ watcher'[i] # watcher[i] =>
                watcher'[i] = [watcher[i] EXCEPT !.pc = "poll"]]_vars

\* C15's case: the first poll of a watcher was a hard error
C15_Witness ==
    \E i \in DOMAIN watcher :
        /\ watcher[i].pc = "sleep"
        /\ Polls(watcher[i]) = 0

----------------------------------------------------------------------------
(* C16 *)

\* C16: no checkpoint is skipped: a watcher that has nothing outstanding has
\* had the ledger acknowledge an update for the last checkpoint it obtained
\* without error, so the root hash of its last acknowledged update is that
\* checkpoint's, whatever fetch outcomes came before.
C16_NoCheckpointSkipped ==
    \A i \in DOMAIN watcher :
        LET w == watcher[i] IN
        w.pc \in {"sleep", "poll"} /\ w.fetched # <<>> =>
            w.account.data = w.fetched[Len(w.fetched)]

----------------------------------------------------------------------------
(* C17 *)

\* the ledger acknowledged the update the task submitted last, the update
\* is applied to the local account and the task is back in its polling loop
Acknowledged(i) ==
    /\ AtPc(i, "sleep")
    /\ watcher[i].attempts # <<>>
    /\ watcher[i].attempts[Len(watcher[i].attempts)].result = "ok"
    /\ watcher[i].account.data = watcher[i].attempts[Len(watcher[i].attempts)].tx.data

----------------------------------------------------------------------------
(* C18 *)

\* the errors of create_log_account and of the setup of watch_log
SetupErrors == {"get_account", "keystore", "create_account", "log_key", "ct_client"}

\* C18: a watcher that has entered its polling loop never terminates: a
\* task only ever ends with an error of its setup.
C18_PollingNeverEnds ==
    \A i \in DOMAIN watcher :
        watcher[i].pc = "ended" => watcher[i].ret \in SetupErrors

----------------------------------------------------------------------------
(* C19 *)

\* index is a position of the cached logs list
ValidIndex(c, index) == index \in 0..(Len(c.logs) - 1)

\* the cached directory is what one fetched directory gives, and its indices
\* point at logs of the right id and operator in it
BuiltFrom(c, dir) ==
    /\ c = Rebuild(dir, c.last_updated)
    /\ \A id \in DOMAIN c.logs_by_id :
          /\ ValidIndex(c, c.logs_by_id[id])
          /\ At(c.logs, c.logs_by_id[id]).log_id = id
    /\ \A operator \in DOMAIN c.logs_by_operator :
          \A k \in DOMAIN c.logs_by_operator[operator] :
              LET index == c.logs_by_operator[operator][k] IN
              /\ ValidIndex(c, index)
              /\ \E entry \in EntriesNamed(dir, operator) :
                    At(c.logs, index) \in Range(dir.operators[entry].logs)

\* C19: in every state, under every interleaving of accesses and refreshes,
\* the cached directory is either the empty one of construction or was built
\* as a whole from one fetched directory: every index of by_id and
\* by_operator is a position of the current logs list and points at a log
\* with that id, of that operator.
C19_IndicesPointIntoLogs ==
    \/ cache = DefaultCachedLogs
    \/ \E dir \in SampleDirectories : BuiltFrom(cache, dir)

\* C19's case: a caller reads a refreshed cache while another caller is
\* about to swap in what it built from a different directory
C19_Witness ==
    \E c, e \in Clients :
        /\ call[c].pc = "reading"
        /\ cache.logs # <<>>
        /\ call[e].pc = "fetched"
        /\ ~BuiltFrom(cache, call[e].new_log_list)

----------------------------------------------------------------------------
(* C20 *)

\* the caller is inside fetch_log_list
Fetching(c) == call[c].pc = "fetching"

\* C20 as stated: while some caller is inside the fetch, no caller holds the
\* cache lock.
C20_AsStated == (\E c \in Callers : Fetching(c)) => lock = "none"

\* C20, amended: a caller inside the fetch does not hold the cache lock, and
\* whoever holds the lock is inside its freshness check, its swap or its
\* read, none of which waits for the network; another caller may hold the
\* lock for one of these while a fetch is in progress.
C20_NoLockAcrossFetch ==
    /\ \A c \in Callers : Fetching(c) => lock # c
    /\ \A c \in Callers : lock = c => call[c].pc \in {"checking", "swapping", "reading"}
    /\ lock \in Callers \cup {"none"}

\* C20's case: a caller reads the cache while another is inside the fetch
C20_Witness ==
    \E c, e \in Clients :
        /\ Fetching(c)
        /\ call[e].pc = "reading"
        /\ lock = e

----------------------------------------------------------------------------
(* C21 *)

\* the caller found the cache stale in this access, fetched, rebuilt and
\* performed its swap
RebuiltAndSwapped(c) ==
    /\ call[c].fetch = "ok"
    /\ ~call[c].fresh
    /\ call[c].pc \in {"read", "reading", "done"}

\* the directory content of a cache: everything but last_updated
Content(c) ==
    [logs |-> c.logs, logs_by_id |-> c.logs_by_id,
     logs_by_operator |-> c.logs_by_operator]

\* C21: when two callers both observed a stale cache and both fetched,
\* rebuilt and swapped, the cached directory content is what the more
\* recently fetched directory gives, whichever of the two swapped last.
C21_ConvergesToLatestFetch ==
    \A c, d \in Clients :
        (c # d /\ RebuiltAndSwapped(c) /\ RebuiltAndSwapped(d) /\ call[d].latest)
            => Content(cache) = Content(Rebuild(call[d].new_log_list, call[d].now))

----------------------------------------------------------------------------
(* C22 *)

\* the task ended with an error of its account bootstrap, of its log key or
\* of its client
EndedWithError(w) ==
    /\ w.pc = "ended"
    /\ w.ret \in {"get_account", "keystore", "create_account", "log_key", "ct_client"}

\* task i ends in this step
Ends(i) == i \in DOMAIN watcher /\ watcher[i].pc # "ended" /\ watcher'[i].pc = "ended"

\* C22: a watcher that ends with an error affects only itself. The step that
\* ends it changes nothing of the supervisor, of the ledger, of the cache
\* or of any other watcher, and an ended watcher does nothing more; whatever
\* watchers have ended, monitor_operators returns Ok once every operator is
\* dealt with, and every other watcher can poll, submit and wake up.
C22_FailureIsLocal ==
    /\ [][\A i \in WatcherIds :
              Ends(i) =>
                  /\ sup' = sup
                  /\ ledger' = ledger
                  /\ cacheVars' = cacheVars
                  /\ DOMAIN watcher' = DOMAIN watcher
                  /\ \A j \in DOMAIN watcher \ {i} : watcher'[j] = watcher[j]]_vars
    /\ [][\A i \in WatcherIds : AtPc(i, "ended") => watcher'[i] = watcher[i]]_vars
    /\ []((sup.pc = "loop" /\ sup.next > Len(sup.operators)) => ENABLED ReturnOk)
    /\ [](sup.pc = "returned" /\ sup.ret # "ok" => sup.spawned = 0 \/ sup.ret = "resolve")
    /\ [](\A j \in WatcherIds :
              /\ (AtPc(j, "poll") /\ TotalPolls < PollBudget) => ENABLED PollOk(j)
              /\ AtPc(j, "submit") => ENABLED SubmitOk(j)
              /\ AtPc(j, "sleep") => ENABLED Wake(j))

\* C22's case: one watcher has ended with an error, monitor_operators has
\* returned Ok, and the watcher of another log has polled a checkpoint and
\* is submitting its update
C22_Witness ==
    \E i, j \in DOMAIN watcher :
        /\ EndedWithError(watcher[i])
        /\ watcher[j].log.log_id # watcher[i].log.log_id
        /\ watcher[j].pc = "submit"
        /\ watcher[j].update_tx.op = "SetData"
        /\ sup.pc = "returned"
        /\ sup.ret = "ok"

----------------------------------------------------------------------------
(* C23 *)

\* the fetch of c's access failed
FetchFailed(c) == call[c].fetch \in LogListErrorVariants

\* e's access is not earlier than c's and met the cache as c's access met it
NextAfter(c, e) ==
    /\ e # c
    /\ Checked(e)
    /\ call[e].now >= call[c].now
    /\ call[e].seen = call[c].seen

====
